---- MODULE Spec2Model ----
(***************************************************************************)
(* fortio.org/assert (src/assert.go): the assertion helpers and the suite  *)
(* runner Run, as a state machine.                                         *)
(*                                                                         *)
(* The runner's goroutine walks Run's statements (pc); the sub-test that   *)
(* t.Run starts is a second goroutine (sub).  The calls the code makes on  *)
(* *testing.T (Fail, FailNow, Run) are modelled by what Go's testing       *)
(* package does for them: Fail marks the handle and its parents, FailNow   *)
(* marks, sets finished and ends the calling goroutine, and Run waits for  *)
(* the sub-test's completion signal and ends its own goroutine when the    *)
(* signal says that a parent of the sub-test was failed fatally.           *)
(***************************************************************************)
EXTENDS Integers, Sequences, FiniteSets, TLC

\* Bounds of the model.
MaxTests == 2      \* Test* methods a suite may declare
MaxStmts == 2      \* helper calls one test method makes
MaxStrLen == 2     \* length of the strings handed to Contains

VARIABLES
  methods,    \* the suite type's exported method table, in reflect's order
  hostMatch,  \* names the host's sub-test filter lets run
  recording,  \* whether the last helper call is kept in `call`
  suiteT,     \* TestSuite.t
  setup,      \* Run's local setup   (TRUE: non-nil)
  tearDown,   \* Run's local tearDown (TRUE: non-nil)
  i,          \* Run's discovery loop index (0-based)
  tests,      \* Run's local tests
  ti,         \* position of `range tests` (1-based)
  pc,         \* where Run's goroutine is
  sub,        \* where the sub-test's goroutine is
  nstmt,      \* helper calls made by the running test method
  failed,     \* testing.T.failed, per handle
  finished,   \* testing.T.finished, per handle
  signal,     \* value the sub-test sent on t.signal
  out,        \* diagnostics printed by the helpers
  log,        \* hook, body and helper-call events, in order
  call        \* the last helper call with the testing state around it

vars == <<methods, hostMatch, recording, suiteT, setup, tearDown, i, tests, ti,
          pc, sub, nstmt, failed, finished, signal, out, log, call>>

----------------------------------------------------------------------------
\* Method names, as character sequences.

Letters == <<"A", "B", "C", "D">>
TestPrefix == <<"T", "e", "s", "t">>
NameHelper == <<"H", "e", "l", "p", "e", "r">>
NameSetT == <<"S", "e", "t", "T">>
NameSetupTest == <<"S", "e", "t", "u", "p", "T", "e", "s", "t">>
NameT == <<"T">>
NameTearDownTest == <<"T", "e", "a", "r", "D", "o", "w", "n", "T", "e", "s", "t">>
TestName(n) == TestPrefix \o <<Letters[n]>>
TestNames == {TestName(n) : n \in 1..MaxTests}

\* Every method a suite of the model may have, in the order reflect
\* enumerates them (sorted by name).
Universe ==
  <<NameHelper, NameSetT, NameSetupTest, NameT, NameTearDownTest>>
    \o [n \in 1..MaxTests |-> TestName(n)]

RECURSIVE Pick(_, _)
Pick(seq, keep) ==
  IF seq = <<>> THEN <<>>
  ELSE (IF Head(seq) \in keep THEN <<Head(seq)>> ELSE <<>>) \o Pick(Tail(seq), keep)

Range(seq) == {seq[j] : j \in 1..Len(seq)}

\* The method tables of the suites: T and SetT always (hasT), the rest optional.
Suites ==
  {Pick(Universe, {NameT, NameSetT} \cup opt \cup tn) :
     opt \in SUBSET {NameHelper, NameSetupTest, NameTearDownTest},
     tn \in SUBSET TestNames}

----------------------------------------------------------------------------
\* *testing.T handles.

NilT == [kind |-> "nil", k |-> 0]
TopT == [kind |-> "top", k |-> 0]
SubT(k) == [kind |-> "sub", k |-> k]
Handles == {TopT} \cup {SubT(k) : k \in 1..MaxTests}

\* The handle and its parents (a sub-test's parent is the handle Run got).
SelfAndParents(t) == IF t.kind = "sub" THEN {t, TopT} ELSE {t}

----------------------------------------------------------------------------
\* Values handed to the helpers: a dynamic type, a payload and a nil flag.

Val(ty, v, isnil) == [ty |-> ty, v |-> v, nil |-> isnil]
NilV == Val("nil", <<>>, TRUE)                 \* the nil interface
IntV(n) == Val("int", <<n>>, FALSE)
Int64V(n) == Val("int64", <<n>>, FALSE)
SliceV(s) == Val("[]int", s, FALSE)
NilSliceV == Val("[]int", <<>>, TRUE)
PtrV(addr) == Val("*S", <<addr>>, FALSE)       \* pointer to a struct at addr
BoolV(b) == Val("bool", IF b THEN <<1>> ELSE <<0>>, FALSE)
ErrV == Val("*errors.errorString", <<1>>, FALSE)
StrV(s) == Val("string", s, FALSE)

\* The structs the pointers point to: 1 and 2 are distinct and equal.
Heap == <<7, 7, 8>>

Values ==
  {NilV, IntV(1), IntV(2), Int64V(1), SliceV(<<1>>), SliceV(<<>>), NilSliceV,
   PtrV(1), PtrV(2), PtrV(3)}
Bools == {BoolV(TRUE), BoolV(FALSE)}
Errors == {NilV, ErrV}
RECURSIVE SeqsUpTo(_)
SeqsUpTo(n) ==
  IF n = 0 THEN {<<>>}
  ELSE LET shorter == SeqsUpTo(n - 1)
       IN shorter \cup {Append(s, c) : s \in {x \in shorter : Len(x) = n - 1}, c \in {1, 2}}
Strings == {StrV(s) : s \in SeqsUpTo(MaxStrLen)}

\* reflect.DeepEqual.
DeepEqual(a, b) ==
  IF a.ty = "nil" \/ b.ty = "nil" THEN a.ty = b.ty
  ELSE IF a.ty # b.ty THEN FALSE
  ELSE IF a.ty = "*S" THEN a.v = b.v \/ Heap[a.v[1]] = Heap[b.v[1]]
  ELSE IF a.ty = "[]int" THEN a.nil = b.nil /\ a.v = b.v
  ELSE a.v = b.v

\* Go's == on two interface values: a run-time panic when both hold the
\* same uncomparable dynamic type.
Uncomparable(a, b) == a.ty = b.ty /\ a.ty = "[]int"
InterfaceEq(a, b) == a.ty = b.ty /\ a.v = b.v

\* strings.Contains.
StringsContains(haystack, needle) ==
  \E j \in 1..(Len(haystack.v) + 1) :
     /\ j + Len(needle.v) - 1 <= Len(haystack.v)
     /\ SubSeq(haystack.v, j, j + Len(needle.v) - 1) = needle.v

----------------------------------------------------------------------------
\* The testing state a helper works on, and its control outcome:
\* "next" (the helper returns), "goexit" (the calling goroutine ends),
\* "panic".

TState == [failed |-> failed, finished |-> finished, out |-> out, ctl |-> "next"]

Panic(ts) == [ts EXCEPT !.ctl = "panic"]

\* fmt.Printf of a diagnostic.
Printf(ts) == [ts EXCEPT !.out = @ + 1]

\* t.Fail(): marks t and, through c.parent.Fail(), its parents.
TFail(ts, t) ==
  IF t = NilT THEN Panic(ts)
  ELSE [ts EXCEPT !.failed = [h \in Handles |->
                                IF h \in SelfAndParents(t) THEN TRUE ELSE @[h]]]

\* t.FailNow(): Fail, finished = true, runtime.Goexit().
TFailNow(ts, t) ==
  IF t = NilT THEN Panic(ts)
  ELSE [TFail(ts, t) EXCEPT !.finished[t] = TRUE, !.ctl = "goexit"]

ObjectsAreEqualValues(a, b) == DeepEqual(a, b)

ErrorfFatal(ts, t) == TFailNow(Printf(ts), t)
Errorf(ts, t) == TFail(Printf(ts), t)

NotEqualInverted(ts, t, a, b) ==
  IF ~ObjectsAreEqualValues(a, b) THEN Errorf(ts, t) ELSE ts
NotEqual(ts, t, a, b) ==
  IF ObjectsAreEqualValues(a, b) THEN Errorf(ts, t) ELSE ts

EqualValues(ts, t, a, b) ==
  IF ~ObjectsAreEqualValues(a, b) THEN Errorf(ts, t) ELSE ts

Equal(ts, t, a, b) == EqualValues(ts, t, a, b)

NoError(ts, t, err) == IF err # NilV THEN Errorf(ts, t) ELSE ts

Error(ts, t, err) == IF err = NilV THEN Errorf(ts, t) ELSE ts

True(ts, t, b) == IF ~(b = BoolV(TRUE)) THEN Errorf(ts, t) ELSE ts

False(ts, t, b) == IF b = BoolV(TRUE) THEN Errorf(ts, t) ELSE ts

Contains(ts, t, haystack, needle) ==
  IF ~StringsContains(haystack, needle) THEN Errorf(ts, t) ELSE ts

Fail(ts, t) == TFailNow(Printf(ts), t)

CheckEquals(ts, t, actual, expected) ==
  IF Uncomparable(expected, actual) THEN Panic(ts)
  ELSE IF ~InterfaceEq(expected, actual) THEN TFail(Printf(ts), t)
  ELSE ts

AssertCond(ts, t, cond) ==
  IF ~(cond = BoolV(TRUE)) THEN TFail(Printf(ts), t) ELSE ts

NonFatalHelpers ==
  {"Equal", "NotEqual", "True", "False", "Contains", "NoError", "Error",
   "Assert", "CheckEquals"}
Helpers == NonFatalHelpers \cup {"EqualValues", "Fail"}

\* The arguments a helper's signature admits (b is NilV where it takes one).
ArgsA(h) ==
  CASE h \in {"Equal", "NotEqual", "EqualValues", "CheckEquals"} -> Values
    [] h \in {"True", "False", "Assert"} -> Bools
    [] h \in {"NoError", "Error"} -> Errors
    [] h = "Contains" -> Strings
    [] OTHER -> {NilV}
ArgsB(h) ==
  CASE h \in {"Equal", "NotEqual", "EqualValues", "CheckEquals"} -> Values
    [] h = "Contains" -> Strings
    [] OTHER -> {NilV}

CallHelper(h, ts, t, a, b) ==
  CASE h = "Equal" -> Equal(ts, t, a, b)
    [] h = "EqualValues" -> EqualValues(ts, t, a, b)
    [] h = "NotEqual" -> NotEqual(ts, t, a, b)
    [] h = "True" -> True(ts, t, a)
    [] h = "False" -> False(ts, t, a)
    [] h = "Contains" -> Contains(ts, t, a, b)
    [] h = "NoError" -> NoError(ts, t, a)
    [] h = "Error" -> Error(ts, t, a)
    [] h = "Assert" -> AssertCond(ts, t, a)
    [] h = "CheckEquals" -> CheckEquals(ts, t, a, b)
    [] h = "Fail" -> Fail(ts, t)

----------------------------------------------------------------------------
\* The suite runner.

\* regexp.MatchString("^Test", name).
MatchString(name) ==
  Len(name) >= Len(TestPrefix) /\ SubSeq(name, 1, Len(TestPrefix)) = TestPrefix

\* suite.(hasSetupTest), suite.(hasTearDown): the method set has the method.
Implements(name) == name \in Range(methods)

\* testing.InternalTest{Name: method.Name, F: func(t) { method.Func.Call(suite) }}:
\* F is kept as the name of the method the closure calls.
InternalTest(method) == [Name |-> method, F |-> method]

\* An event, with the handle that suite.T() returns when it happens.
Event(ev, m) == [ev |-> ev, m |-> m, t |-> suiteT]

NoCall == [h |-> "none", a |-> NilV, b |-> NilV, t |-> NilT,
           pre |-> [failed |-> [h \in Handles |-> FALSE], out |-> 0],
           post |-> [failed |-> [h \in Handles |-> FALSE], out |-> 0, ctl |-> "next"]]

InitCommon ==
  /\ suiteT = NilT
  /\ setup = FALSE
  /\ tearDown = FALSE
  /\ i = 0
  /\ tests = <<>>
  /\ ti = 1
  /\ pc = "start"
  /\ sub = "idle"
  /\ nstmt = 0
  /\ failed = [h \in Handles |-> FALSE]
  /\ finished = [h \in Handles |-> FALSE]
  /\ signal = TRUE
  /\ out = 0
  /\ log = <<>>
  /\ call = NoCall

\* Any suite, any host filter.
Init ==
  /\ methods \in Suites
  /\ hostMatch \in SUBSET {m \in Range(methods) : m \in TestNames}
  /\ recording = FALSE
  /\ InitCommon

\* Run, lines 143-145: suite.SetT(t); tests := []; methodFinder := TypeOf(suite).
RunBindNoSetT ==
  /\ pc = "start"
  /\ tests' = <<>>
  /\ pc' = "caps"
  /\ UNCHANGED <<methods, hostMatch, recording, suiteT, setup, tearDown, i, ti, sub,
                 nstmt, failed, finished, signal, out, log, call>>
RunBind ==
  /\ pc = "start"
  /\ suiteT' = TopT
  /\ tests' = <<>>
  /\ pc' = "caps"
  /\ UNCHANGED <<methods, hostMatch, recording, setup, tearDown, i, ti, sub,
                 nstmt, failed, finished, signal, out, log, call>>

\* Run, lines 146-153: the two capability checks; then i := 0.
RunCaps ==
  /\ pc = "caps"
  /\ setup' = Implements(NameSetupTest)
  /\ tearDown' = Implements(NameTearDownTest)
  /\ i' = 0
  /\ pc' = "discover"
  /\ UNCHANGED <<methods, hostMatch, recording, suiteT, tests, ti, sub, nstmt,
                 failed, finished, signal, out, log, call>>

\* Run, lines 154-167: one iteration of the discovery loop, or its exit.
RunDiscover ==
  /\ pc = "discover"
  /\ IF i < Len(methods)
     THEN /\ tests' = IF MatchString(methods[i + 1])
                      THEN Append(tests, InternalTest(methods[i + 1]))
                      ELSE tests
          /\ i' = i + 1
          /\ UNCHANGED <<pc, ti>>
     ELSE /\ pc' = "loop"
          /\ ti' = 1
          /\ UNCHANGED <<tests, i>>
  /\ UNCHANGED <<methods, hostMatch, recording, suiteT, setup, tearDown, sub, nstmt,
                 failed, finished, signal, out, log, call>>

\* Run, line 168: the next test of `range tests`, or Run returns.
RunLoop ==
  /\ pc = "loop"
  /\ pc' = IF ti <= Len(tests) THEN "setup" ELSE "returned"
  /\ UNCHANGED <<methods, hostMatch, recording, suiteT, setup, tearDown, i, tests, ti,
                 sub, nstmt, failed, finished, signal, out, log, call>>

\* Run, lines 169-171.
RunSetup ==
  /\ pc = "setup"
  /\ log' = IF setup THEN Append(log, Event("SetupTest", <<>>)) ELSE log
  /\ pc' = "trun"
  /\ UNCHANGED <<methods, hostMatch, recording, suiteT, setup, tearDown, i, tests, ti,
                 sub, nstmt, failed, finished, signal, out, call>>

\* Run, line 172, the call: t.Run returns at once when the host's filter
\* does not match the name, and else starts the sub-test's goroutine and
\* waits for its signal.
TRun ==
  /\ pc = "trun"
  /\ IF tests[ti].Name \in hostMatch
     THEN pc' = "wait" /\ sub' = "start"
     ELSE pc' = "teardown" /\ sub' = sub
  /\ UNCHANGED <<methods, hostMatch, recording, suiteT, setup, tearDown, i, tests, ti,
                 nstmt, failed, finished, signal, out, log, call>>

\* Run, lines 162-164: the record's F runs; it drops its own t and calls
\* the method on the suite.
RecordFRebind ==
  /\ sub = "start"
  /\ suiteT' = SubT(ti)
  /\ log' = Append(log, [ev |-> "Test", m |-> tests[ti].F, t |-> SubT(ti)])
  /\ sub' = "body"
  /\ nstmt' = 0
  /\ UNCHANGED <<methods, hostMatch, recording, setup, tearDown, i, tests, ti,
                 pc, failed, finished, signal, out, call>>
RecordF ==
  /\ sub = "start"
  /\ log' = Append(log, Event("Test", tests[ti].F))
  /\ sub' = "body"
  /\ nstmt' = 0
  /\ UNCHANGED <<methods, hostMatch, recording, suiteT, setup, tearDown, i, tests, ti,
                 pc, failed, finished, signal, out, call>>

\* A statement of the test method: a helper called with suite.T().
BodyStmt ==
  /\ sub = "body"
  /\ nstmt < MaxStmts
  /\ \E h \in Helpers : \E a \in ArgsA(h) : \E b \in ArgsB(h) :
       LET r == CallHelper(h, TState, suiteT, a, b)
       IN /\ failed' = r.failed
          /\ finished' = r.finished
          /\ out' = r.out
          /\ sub' = CASE r.ctl = "next" -> "body"
                      [] r.ctl = "goexit" -> "goexit"
                      [] r.ctl = "panic" -> "panicked"
          /\ log' = Append(log, Event(IF h = "Fail" THEN "Fail" ELSE "assert",
                                      tests[ti].F))
          /\ call' = IF recording
                     THEN [h |-> h, a |-> a, b |-> b, t |-> suiteT,
                           pre |-> [failed |-> failed, out |-> out],
                           post |-> [failed |-> r.failed, out |-> r.out, ctl |-> r.ctl]]
                     ELSE call
  /\ nstmt' = nstmt + 1
  /\ UNCHANGED <<methods, hostMatch, recording, suiteT, setup, tearDown, i, tests, ti,
                 pc, signal>>

\* The test method returns, and so does F.
BodyReturn ==
  /\ sub = "body"
  /\ sub' = "returned"
  /\ UNCHANGED <<methods, hostMatch, recording, suiteT, setup, tearDown, i, tests, ti,
                 pc, nstmt, failed, finished, signal, out, log, call>>

\* Run, line 172, the sub-test's end (testing.tRunner): after F returned the
\* sub-test is finished and signals true.  After a Goexit the sub-test is
\* not finished unless FailNow was called on it; when a parent is finished
\* instead (FailNow was called on the parent from the sub-test), the
\* sub-test is marked failed and signals false; a Goexit with no FailNow at
\* all is a panic.
TRunnerDone ==
  /\ sub \in {"returned", "goexit"}
  /\ IF sub = "returned" \/ finished[SubT(ti)]
     THEN /\ finished' = [finished EXCEPT ![SubT(ti)] = TRUE]
          /\ signal' = TRUE
          /\ UNCHANGED <<failed, pc>>
     ELSE IF finished[TopT]
     THEN /\ failed' = [failed EXCEPT ![SubT(ti)] = TRUE, ![TopT] = TRUE]
          /\ signal' = FALSE
          /\ UNCHANGED <<finished, pc>>
     ELSE /\ pc' = "crashed"
          /\ UNCHANGED <<failed, finished, signal>>
  /\ sub' = "done"
  /\ UNCHANGED <<methods, hostMatch, recording, suiteT, setup, tearDown, i, tests, ti,
                 nstmt, out, log, call>>

\* A panic in the sub-test's goroutine ends the process.
TRunnerPanic ==
  /\ sub = "panicked"
  /\ sub' = "done"
  /\ pc' = "crashed"
  /\ UNCHANGED <<methods, hostMatch, recording, suiteT, setup, tearDown, i, tests, ti,
                 nstmt, failed, finished, signal, out, log, call>>

\* Run, line 172, the return: t.Run receives the signal; on false it calls
\* runtime.Goexit(), which ends the goroutine Run is running in.
TRunWait ==
  /\ pc = "wait"
  /\ sub = "done"
  /\ pc' = IF signal THEN "teardown" ELSE "exited"
  /\ sub' = "idle"
  /\ UNCHANGED <<methods, hostMatch, recording, suiteT, setup, tearDown, i, tests, ti,
                 nstmt, failed, finished, signal, out, log, call>>

\* Run, lines 173-175, and the loop's step.
RunTearDown ==
  /\ pc = "teardown"
  /\ log' = IF tearDown THEN Append(log, Event("TearDownTest", <<>>)) ELSE log
  /\ ti' = ti + 1
  /\ pc' = "loop"
  /\ UNCHANGED <<methods, hostMatch, recording, suiteT, setup, tearDown, i, tests,
                 sub, nstmt, failed, finished, signal, out, call>>

Next ==
  \/ RunBind
  \/ RunCaps
  \/ RunDiscover
  \/ RunLoop
  \/ RunSetup
  \/ TRun
  \/ RecordF
  \/ BodyStmt
  \/ BodyReturn
  \/ TRunnerDone
  \/ TRunnerPanic
  \/ TRunWait
  \/ RunTearDown

Spec == Init /\ [][Next]_vars

\* One suite with both hooks, a helper method and one test, every sub-test
\* run by the host, and the helper calls recorded.
HelperInit ==
  /\ methods = Pick(Universe, {NameHelper, NameSetT, NameSetupTest, NameT,
                               NameTearDownTest, TestName(1)})
  /\ hostMatch = {TestName(1)}
  /\ recording = TRUE
  /\ InitCommon

HelperSpec == HelperInit /\ [][Next]_vars

----------------------------------------------------------------------------
\* What the properties are stated with.

\* Run's call is over: it returned, or its goroutine was ended.
RunOver == pc \in {"returned", "exited"}

\* The host's filter lets every discovered test run.
AllMatched == \A k \in 1..Len(tests) : tests[k].Name \in hostMatch

Count(ev) == Cardinality({j \in 1..Len(log) : log[j].ev = ev})
CountOf(ev, m) == Cardinality({j \in 1..Len(log) : log[j].ev = ev /\ log[j].m = m})

\* The hook and body events of the log, in order, as <<event, method>>.
RECURSIVE HookBodyEvents(_)
HookBodyEvents(l) ==
  IF l = <<>> THEN <<>>
  ELSE (IF Head(l).ev \in {"SetupTest", "Test", "TearDownTest"}
        THEN <<(<<Head(l).ev, Head(l).m>>)>> ELSE <<>>) \o HookBodyEvents(Tail(l))

\* Setup, m1, Teardown, ..., Setup, mn, Teardown for the given method names,
\* with the hooks the suite has.
RECURSIVE Bracketed(_, _, _)
Bracketed(names, withSetup, withTearDown) ==
  IF names = <<>> THEN <<>>
  ELSE (IF withSetup THEN <<(<<"SetupTest", <<>>>>)>> ELSE <<>>)
         \o <<(<<"Test", Head(names)>>)>>
         \o (IF withTearDown THEN <<(<<"TearDownTest", <<>>>>)>> ELSE <<>>)
         \o Bracketed(Tail(names), withSetup, withTearDown)

\* The names of the exported methods that start with "Test", in enumeration order.
TestMethods ==
  LET IsTest(m) == Len(m) >= 4 /\ m[1] = "T" /\ m[2] = "e" /\ m[3] = "s" /\ m[4] = "t"
  IN SelectSeq(methods, IsTest)

\* C1: for a suite with both hooks, a finished Run call has produced exactly
\* Setup, m1, Teardown, ..., Setup, mn, Teardown over the discovered test
\* methods in enumeration order (the host running every sub-test).
C1_BracketedSequence ==
  (RunOver /\ setup /\ tearDown /\ AllMatched)
    => HookBodyEvents(log) = Bracketed(TestMethods, TRUE, TRUE)

\* C2: once Run is over, for every call of Fail in a test body: no later
\* statement of that body ran, the test is marked failed, one Teardown ran
\* after that body and one per later record, and every later record the host
\* lets run has run its body.
C2_FatalStopsOnlyTheBody ==
  RunOver =>
    \A j \in 1..Len(log) :
      log[j].ev = "Fail" =>
        LET k == CHOOSE k \in 1..Len(tests) : tests[k].F = log[j].m
            after == {j2 \in (j + 1)..Len(log) : TRUE}
        IN /\ \A j2 \in after : ~(log[j2].ev \in {"assert", "Fail"} /\ log[j2].m = log[j].m)
           /\ failed[TopT]
           /\ tearDown =>
                Cardinality({j2 \in after : log[j2].ev = "TearDownTest"}) = Len(tests) - k + 1
           /\ \A k2 \in (k + 1)..Len(tests) :
                tests[k2].Name \in hostMatch =>
                  \E j2 \in after : log[j2].ev = "Test" /\ log[j2].m = tests[k2].F

\* C3: the records are exactly the methods whose name starts with "Test",
\* each named after the method its body calls, and once Run is over (the
\* host running every sub-test) each of them was invoked exactly once and no
\* other method was invoked as a test.
C3_ExactlyTheTestMethods ==
  /\ pc \notin {"start", "caps", "discover"} =>
       /\ [k \in 1..Len(tests) |-> tests[k].Name] = TestMethods
       /\ \A k \in 1..Len(tests) : tests[k].F = tests[k].Name
  /\ (RunOver /\ AllMatched) =>
       \A m \in Range(methods) :
         CountOf("Test", m) = IF m \in Range(TestMethods) THEN 1 ELSE 0

\* C4: Run binds the host's handle before anything else, and every Setup,
\* test body, helper call and Teardown sees suite.T() return that handle.
C4_TopLevelHandleBound ==
  /\ pc = "start" => (tests = <<>> /\ i = 0 /\ log = <<>>)
  /\ pc # "start" => suiteT = TopT
  /\ \A j \in 1..Len(log) : log[j].t = TopT

C4_Witness ==
  /\ pc = "returned"
  /\ \A ev \in {"SetupTest", "Test", "assert", "TearDownTest"} : Count(ev) >= 1
  /\ Len(tests) = 2

\* What the helper's condition says of the recorded call: it holds, or it
\* fails (neither, when CheckEquals's comparison panics).
CondHolds(c) ==
  CASE c.h \in {"Equal", "EqualValues"} -> DeepEqual(c.a, c.b)
    [] c.h = "NotEqual" -> ~DeepEqual(c.a, c.b)
    [] c.h \in {"True", "Assert"} -> c.a = BoolV(TRUE)
    [] c.h = "False" -> c.a = BoolV(FALSE)
    [] c.h = "Contains" -> StringsContains(c.a, c.b)
    [] c.h = "NoError" -> c.a = NilV
    [] c.h = "Error" -> c.a # NilV
    [] c.h = "CheckEquals" -> ~Uncomparable(c.a, c.b) /\ InterfaceEq(c.a, c.b)
    [] OTHER -> FALSE
CondFails(c) ==
  IF c.h = "CheckEquals" THEN ~Uncomparable(c.a, c.b) /\ ~InterfaceEq(c.a, c.b)
  ELSE ~CondHolds(c)

\* The recorded call reported a failure / had no effect.
Reported(c) == c.post.out = c.pre.out + 1 /\ c.post.failed[c.t]
NoEffect(c) == c.post.out = c.pre.out /\ c.post.failed = c.pre.failed

C7_EqualNotEqualDual ==
  /\ call.h = "Equal" =>
       IF DeepEqual(call.a, call.b) THEN NoEffect(call) ELSE Reported(call)
  /\ call.h = "NotEqual" =>
       IF DeepEqual(call.a, call.b) THEN Reported(call) ELSE NoEffect(call)

\* NotEqual on two distinct pointers to equal structs reports a failure.
C7_Witness ==
  /\ call.h = "NotEqual"
  /\ call.a = PtrV(1)
  /\ call.b = PtrV(2)
  /\ Reported(call)

\* C6: no hook the suite lacks is ever called; once Run is over, a suite
\* with neither hook has returned with only the bodies in its log, and a
\* hook the suite has was called once per record.
C6_MissingHooksSkipped ==
  /\ ~setup => Count("SetupTest") = 0
  /\ ~tearDown => Count("TearDownTest") = 0
  /\ RunOver =>
       /\ (~setup /\ ~tearDown) =>
            /\ pc = "returned"
            /\ HookBodyEvents(log) =
                 Bracketed(SelectSeq(TestMethods, LAMBDA m : m \in hostMatch), FALSE, FALSE)
       /\ (setup /\ ~tearDown) => Count("SetupTest") = Len(tests)
       /\ (tearDown /\ ~setup) => Count("TearDownTest") = Len(tests)

\* C8: when Run is over it has returned, having passed every record to the host.
C8_RunnerNeverStopped ==
  RunOver => (pc = "returned" /\ ti = Len(tests) + 1)

\* C9: when Run is over, each hook the suite has was called once per
\* discovered record, whatever the host's filter let run.
C9_HooksPerRecord ==
  RunOver =>
    /\ Count("SetupTest") = IF setup THEN Len(tests) ELSE 0
    /\ Count("TearDownTest") = IF tearDown THEN Len(tests) ELSE 0

\* C10: every helper call of a test method goes to the top-level handle;
\* once a failure was reported the top-level handle is failed; and a
\* sub-test's own handle is failed only where the host marked it after a
\* fatal Fail in its body.
C10_FailuresGoToTopLevel ==
  /\ \A j \in 1..Len(log) : log[j].ev \in {"assert", "Fail"} => log[j].t = TopT
  /\ out > 0 => failed[TopT]
  /\ \A k \in 1..MaxTests :
       failed[SubT(k)] =>
         (k <= Len(tests) /\ CountOf("Fail", tests[k].F) >= 1)

\* The second record's body runs while the top-level handle is failed by a
\* non-fatal assertion of the first record, whose own handle is not failed.
C10_Witness ==
  /\ ti = 2
  /\ sub = "body"
  /\ CountOf("assert", tests[1].F) >= 1
  /\ CountOf("Fail", tests[1].F) = 0
  /\ failed[TopT]
  /\ ~failed[SubT(1)]
  /\ finished[SubT(1)]

====
